---------------------------- MODULE Spec2Model ----------------------------
(***************************************************************************)
(* A model of rolling-stats (src/src/lib.rs): a RollingStats instance      *)
(* keeps a window of the last window_size i32 samples with their sum and   *)
(* sum of squares (i64), and decodes a fragmented byte stream into 4-byte  *)
(* frames, carrying the incomplete tail in `remainder`.                    *)
(*                                                                         *)
(* Numbers.  i32 values are TLA+ integers (they fit TLC's integers).       *)
(* i64 values are kept at their width: a sequence of 8 bytes, least        *)
(* significant first, in two's complement; every i64 operation is done     *)
(* byte-wise modulo 2^64, with the signed-overflow condition computed      *)
(* beside it.  f32 values are records (sign, 24-bit mantissa, exponent) and *)
(* every f32 operation rounds to nearest, ties to even.                    *)
(***************************************************************************)
EXTENDS Integers, Sequences, FiniteSets, TLC

(***************************************************************************)
(* Program constants.                                                      *)
(***************************************************************************)
\* Deque<i32, 10>: the capacity of `values`, and the largest window_size.
DEQUE_CAP == 10
\* Vec<u8, 4>: the capacity of `remainder`.
REM_CAP == 4
\* The size of a frame: 4 - remainder.len(), bytes[0..4], chunks(4).
FRAME == 4
\* The default window size.
DEFAULT_WINDOW == 3

(***************************************************************************)
(* Bounds of the model.                                                    *)
(***************************************************************************)
\* The most input given to one instance: the bytes written to it, plus two
\* for each direct add_sample call.
MaxInput == 8
\* The most direct add_sample calls (the module's tests call it directly).
MaxDirect == 4

\* The byte values a written slice is made of.
ByteVals == {0, 128}
\* The values a direct add_sample call passes: i32::MIN and 2^24 + 1.
SampleVals == {-2147483647 - 1, 16777217}
\* The window sizes new() is called with: both sides of both ends of 1..10.
NewSizes == {0, 1, DEQUE_CAP, DEQUE_CAP + 1}
Endianness == {"Little", "Big"}

Min(a, b) == IF a < b THEN a ELSE b

\* Op applied to the values of its arguments: the arguments are evaluated
\* once, before Op uses them.
Eval1(Op(_), a) == CHOOSE r \in {Op(x) : x \in {a}} : TRUE
Eval2(Op(_, _), a, b) == CHOOSE r \in {Op(x, y) : x \in {a}, y \in {b}} : TRUE

\* All sequences over S of length 0..n.
SeqsUpTo(S, n) == UNION {[1..k -> S] : k \in 0..n}

(***************************************************************************)
(* Fixed-width two's-complement integers as byte sequences, least          *)
(* significant byte first.  The width is the length of the sequence: 8 for *)
(* i64.                                                                    *)
(***************************************************************************)
RECURSIVE Carry(_, _, _)
\* Propagates carries through column sums, dropping the carry out of the top
\* byte: the value modulo 256^Len(cols).
Carry(cols, i, c) ==
    IF i > Len(cols) THEN <<>>
    ELSE LET t == cols[i] + c
         IN  <<t % 256>> \o Carry(cols, i + 1, t \div 256)

IsNeg(a) == a[Len(a)] >= 128

\* `v as i64` for an i32 v (n = 8): sign extension to n bytes.
FromI32(v, n) ==
    Eval1(LAMBDA w : [i \in 1..n |-> IF i <= 4 THEN (w \div (256 ^ (i - 1))) % 256
                                     ELSE IF w < 0 THEN 255 ELSE 0], v)

\* Sign extension of a to n >= Len(a) bytes.
SignExtend(a, n) ==
    Eval1(LAMBDA x : [i \in 1..n |-> IF i <= Len(x) THEN x[i]
                                     ELSE IF IsNeg(x) THEN 255 ELSE 0], a)

wrapping_add(a, b) ==
    Eval2(LAMBDA x, y : Carry([i \in 1..Len(x) |-> x[i] + y[i]], 1, 0), a, b)
wrapping_neg(a) ==
    Eval1(LAMBDA x : Carry([i \in 1..Len(x) |-> 255 - x[i]], 1, 1), a)
wrapping_sub(a, b) ==
    Eval2(LAMBDA x, y : Carry([i \in 1..Len(x) |-> x[i] + (255 - y[i])], 1, 1), a, b)

RECURSIVE ColSum(_, _, _, _)
\* The k-th column of the schoolbook product: a[1]*b[k] + ... + a[k]*b[1].
ColSum(a, b, k, i) ==
    IF i > k THEN 0 ELSE a[i] * b[k + 1 - i] + ColSum(a, b, k, i + 1)

wrapping_mul(a, b) ==
    Eval2(LAMBDA x, y : Carry([k \in 1..Len(x) |-> ColSum(x, y, k, 1)], 1, 0), a, b)

\* Signed overflow of a + b and of a - b, at the width of a.
add_overflows(a, b) ==
    Eval2(LAMBDA x, y : IsNeg(x) = IsNeg(y) /\ IsNeg(wrapping_add(x, y)) # IsNeg(x), a, b)
sub_overflows(a, b) ==
    Eval2(LAMBDA x, y : IsNeg(x) # IsNeg(y) /\ IsNeg(wrapping_sub(x, y)) # IsNeg(x), a, b)

I64Zero == [i \in 1..8 |-> 0]
\* (v as i64).pow(2): the square of an i32 is at most 2^62 and never overflows.
pow2(v) == wrapping_mul(FromI32(v, 8), FromI32(v, 8))


(***************************************************************************)
(* f32.  A value is +0.0, NaN, or (-1)^s * m * 2^e with 2^23 <= m < 2^24.  *)
(* The values the program computes stay clear of infinities and            *)
(* subnormals: magnitudes lie between 2^-30 and 2^126.  Every operation    *)
(* rounds the exact result to nearest, ties to even, as IEEE 754 does.     *)
(***************************************************************************)
F32Zero == [k |-> "zero"]
F32NaN == [k |-> "nan"]
F32Num(s, m, e) == [k |-> "num", s |-> s, m |-> m, e |-> e]

RECURSIVE BitLen(_)
\* The number of bits of q >= 0.
BitLen(q) == IF q = 0 THEN 0 ELSE 1 + BitLen(q \div 2)

\* The f32 nearest to (-1)^s * (q + t) * 2^e, where 0 <= t < 1 and sticky
\* says t > 0; sticky is only given with a q of more than 25 bits.
RoundF32(s, q0, e, sticky) ==
    Eval2(LAMBDA q, L :
            IF q = 0 THEN F32Zero
            ELSE IF L <= 24 THEN F32Num(s, q * (2 ^ (24 - L)), e - (24 - L))
            ELSE LET sh == L - 24
                     m0 == q \div (2 ^ sh)
                     rest == q % (2 ^ sh)
                     half == 2 ^ (sh - 1)
                     up == rest > half \/ (rest = half /\ (sticky \/ m0 % 2 = 1))
                     m1 == IF up THEN m0 + 1 ELSE m0
                 IN  IF m1 = 2 ^ 24 THEN F32Num(s, 2 ^ 23, e + sh + 1)
                     ELSE F32Num(s, m1, e + sh),
          q0, BitLen(q0))

\* Bit i (1 is the least significant) of the unsigned number in bytes a.
BitAt(a, i) ==
    IF i < 1 \/ i > 8 * Len(a) THEN 0
    ELSE (a[((i - 1) \div 8) + 1] \div (2 ^ ((i - 1) % 8))) % 2

RECURSIVE TopBit(_, _)
\* The highest set bit of a at or below i; 0 when there is none.
TopBit(a, i) == IF i = 0 THEN 0 ELSE IF BitAt(a, i) = 1 THEN i ELSE TopBit(a, i - 1)

RECURSIVE TakeBits(_, _, _)
\* The number made of the n bits of a from bit hi downward.
TakeBits(a, hi, n) ==
    IF n = 0 THEN 0 ELSE BitAt(a, hi) * (2 ^ (n - 1)) + TakeBits(a, hi - 1, n - 1)

\* The f32 nearest to (-1)^s * a * 2^e, a an unsigned number in bytes.
MagToF32(s, a, e) ==
    Eval1(LAMBDA x :
            Eval1(LAMBDA top :
                    IF top <= 26 THEN RoundF32(s, TakeBits(x, top, top), e, FALSE)
                    ELSE RoundF32(s, TakeBits(x, top, 26), e + top - 26,
                                  \E j \in 1..(top - 26) : BitAt(x, j) = 1),
                  TopBit(x, 8 * Len(x))),
          a)

\* `x as f32` for an i64 x.
I64ToF32(x) ==
    Eval1(LAMBDA y : IF IsNeg(y) THEN MagToF32(1, wrapping_neg(y), 0)
                     ELSE MagToF32(0, y, 0), x)

\* The f32 nearest to x * 2^e, x a signed number in bytes.
I64ToF32Scaled(x, e) ==
    Eval1(LAMBDA y : IF IsNeg(y) THEN MagToF32(1, wrapping_neg(y), e)
                     ELSE MagToF32(0, y, e), x)

\* `n as f32` for a usize n (a length: at most 10).
UsizeToF32(n) == RoundF32(0, n, 0, FALSE)

RECURSIVE DivBits(_, _, _, _)
\* Long division: n more bits of the quotient q, from the remainder r < d.
DivBits(r, d, q, n) ==
    IF n = 0 THEN [q |-> q, r |-> r]
    ELSE IF 2 * r >= d THEN DivBits(2 * r - d, d, 2 * q + 1, n - 1)
         ELSE DivBits(2 * r, d, 2 * q, n - 1)

\* a / b for b # 0.0 (the program divides by a count of at least 1).
F32Div(a0, b0) ==
    Eval2(LAMBDA a, b :
            IF a.k = "nan" \/ b.k # "num" THEN F32NaN
            ELSE IF a.k = "zero" THEN F32Zero
            ELSE LET d == DivBits(a.m % b.m, b.m, a.m \div b.m, 26)
                 IN  RoundF32((a.s + b.s) % 2, d.q, a.e - b.e - 26, d.r # 0),
          a0, b0)

\* a * b
F32Mul(a0, b0) ==
    Eval2(LAMBDA a, b :
            IF a.k = "nan" \/ b.k = "nan" THEN F32NaN
            ELSE IF a.k = "zero" \/ b.k = "zero" THEN F32Zero
            ELSE MagToF32((a.s + b.s) % 2,
                          wrapping_mul(FromI32(a.m, 8), FromI32(b.m, 8)), a.e + b.e),
          a0, b0)

\* m * 2^d for 0 <= d <= 30 as a signed 8-byte number, negated when s = 1.
Scaled(s, m, d) ==
    LET mag == wrapping_mul(FromI32(m, 8),
                            [i \in 1..8 |-> IF i = (d \div 8) + 1 THEN 2 ^ (d % 8) ELSE 0])
    IN  IF s = 1 THEN wrapping_neg(mag) ELSE mag

\* a - b.  An operand more than 2^30 times smaller than the other is less
\* than a quarter of the other's last place and does not change it.
F32Sub(a0, b0) ==
    Eval2(LAMBDA a, b :
            IF a.k = "nan" \/ b.k = "nan" THEN F32NaN
            ELSE IF b.k = "zero" THEN a
            ELSE IF a.k = "zero" THEN F32Num(1 - b.s, b.m, b.e)
            ELSE IF a.e - b.e > 30 THEN a
            ELSE IF b.e - a.e > 30 THEN F32Num(1 - b.s, b.m, b.e)
            ELSE LET e == Min(a.e, b.e)
                 IN  I64ToF32Scaled(wrapping_sub(Scaled(a.s, a.m, a.e - e),
                                                 Scaled(b.s, b.m, b.e - e)), e),
          a0, b0)

RECURSIVE SqrtBits(_, _, _, _)
\* The integer square root of m * 4^14, two bits a step: i counts the steps
\* left (the 13 pairs of m's bits, then 14 pairs of zeros).
SqrtBits(m, i, root, rem) ==
    IF i = 0 THEN [q |-> root, r |-> rem]
    ELSE LET pair == IF i > 14 THEN (m \div (4 ^ (i - 15))) % 4 ELSE 0
             r4 == 4 * rem + pair
             trial == 4 * root + 1
         IN  IF r4 >= trial THEN SqrtBits(m, i - 1, 2 * root + 1, r4 - trial)
             ELSE SqrtBits(m, i - 1, 2 * root, r4)

\* a.sqrt(): NaN for a negative number.
F32Sqrt(a0) ==
    Eval1(LAMBDA a :
            IF a.k = "nan" THEN F32NaN
            ELSE IF a.k = "zero" THEN F32Zero
            ELSE IF a.s = 1 THEN F32NaN
            ELSE LET odd == a.e % 2 = 1
                     m2 == IF odd THEN 2 * a.m ELSE a.m
                     e2 == IF odd THEN a.e - 1 ELSE a.e
                 IN  Eval1(LAMBDA r : RoundF32(0, r.q, (e2 \div 2) - 14, r.r # 0),
                           SqrtBits(m2, 27, 0, 0)),
          a0)

(***************************************************************************)
(* The state: the fields of the one RollingStats instance, the process     *)
(* around it, and the record of what was passed in and handed back.        *)
(***************************************************************************)
VARIABLES
    window_size,      \* RollingStats.window_size
    endianness,       \* RollingStats.endianness
    values,           \* RollingStats.values: the window, oldest first
    remainder,        \* RollingStats.remainder: the carried bytes
    sum,              \* RollingStats.sum (i64)
    sum_of_squares,   \* RollingStats.sum_of_squares (i64)
    created,          \* new() has returned an instance
    panicked,         \* a panic has ended the program
    wrapped,          \* an overflow has wrapped: the build does not check it
    stream,           \* every byte passed to write so far, in order
    samples,          \* every value passed to add_sample so far, in order
    direct,           \* the number of add_sample calls made from outside write
    consumed,         \* the sum of the values write has returned
    path,             \* the branch the last write call took
    asked,            \* the window_size new() was called with; -1 before
    odd_slice,        \* write has passed read_i32_from_bytes a slice not of 4 bytes
    dropped,          \* a result discarded with `let _ =` was an Err
    bytes,            \* the slice given to read_i32_from_bytes on its own
    decoded,          \* <<the i32 it returned>>; <<>> before the call
    encoded           \* <<the i32 whose encoding bytes holds>>, if it is one

vars == <<window_size, endianness, values, remainder, sum, sum_of_squares,
          created, panicked, wrapped, stream, samples, direct,
          consumed, path, asked, odd_slice, dropped, bytes, decoded, encoded>>

\* What a call of read_i32_from_bytes on its own sets.
codec == <<bytes, decoded, encoded>>

\* The instance as one value, in a build that checks integer overflow
\* (overflow_checks, cargo's debug profile) or not, with the log of samples
\* the methods below extend.
SelfIn(checks) ==
    [window_size |-> window_size, endianness |-> endianness, values |-> values,
     remainder |-> remainder, sum |-> sum, sum_of_squares |-> sum_of_squares,
     panicked |-> panicked, overflow_checks |-> checks, wrapped |-> wrapped,
     samples |-> samples, odd_slice |-> odd_slice, dropped |-> dropped]

(***************************************************************************)
(* heapless::Deque<i32, 10> and heapless::Vec<u8, 4>.                      *)
(***************************************************************************)
\* Deque::push_back: Err(item), and nothing stored, when the deque is full.
push_back_is_err(d) == Len(d) >= DEQUE_CAP
push_back(d, x) == IF push_back_is_err(d) THEN d ELSE Append(d, x)
\* Vec::extend_from_slice: Err(()), and nothing stored, when it does not fit.
extend_is_err(v, s) == Len(v) + Len(s) > REM_CAP
extend_from_slice(v, s) == IF extend_is_err(v, s) THEN v ELSE v \o s

\* let _ = self.remainder.extend_from_slice(s);
extend_remainder(self, s) ==
    [self EXCEPT !.remainder = extend_from_slice(self.remainder, s),
                 !.dropped = @ \/ extend_is_err(self.remainder, s)]

(***************************************************************************)
(* RollingStats::new                                                       *)
(***************************************************************************)
\* The assertion with its upper limit off by one.
new_asserts_off_by_one(ws) == ws > 0 /\ ws <= DEQUE_CAP + 1

\* The assertion of new().
new_asserts(ws) == ws > 0 /\ ws <= DEQUE_CAP

new(ws, e, checks) ==
    [window_size |-> ws, endianness |-> e, values |-> <<>>,
     remainder |-> <<>>, sum |-> I64Zero, sum_of_squares |-> I64Zero,
     panicked |-> FALSE, overflow_checks |-> checks, wrapped |-> FALSE,
     samples |-> <<>>, odd_slice |-> FALSE, dropped |-> FALSE]

(***************************************************************************)
(* RollingStats::add_sample, statement by statement.  A statement after a  *)
(* panic is not executed.                                                  *)
(***************************************************************************)
\* An arithmetic overflow in state s, where r is s with the wrapped result
\* stored: a panic in a build that checks overflow, r in one that does not.
on_overflow(s, r) ==
    IF s.overflow_checks THEN [s EXCEPT !.panicked = TRUE]
    ELSE [r EXCEPT !.wrapped = TRUE]

\* self.sum -= x and self.sum += x
\* The eviction that forgets to take the value out of sum.
sum_sub_forgotten(self, x) == self

sum_sub(self, x) ==
    Eval2(LAMBDA s, y :
            IF s.panicked THEN s
            ELSE IF sub_overflows(s.sum, y)
                 THEN on_overflow(s, [s EXCEPT !.sum = wrapping_sub(s.sum, y)])
                 ELSE [s EXCEPT !.sum = wrapping_sub(s.sum, y)],
          self, x)

sum_add(self, x) ==
    Eval2(LAMBDA s, y :
            IF s.panicked THEN s
            ELSE IF add_overflows(s.sum, y)
                 THEN on_overflow(s, [s EXCEPT !.sum = wrapping_add(s.sum, y)])
                 ELSE [s EXCEPT !.sum = wrapping_add(s.sum, y)],
          self, x)

\* self.sum_of_squares -= x and self.sum_of_squares += x
sq_sub(self, x) ==
    Eval2(LAMBDA s, y :
            IF s.panicked THEN s
            ELSE IF sub_overflows(s.sum_of_squares, y)
                 THEN on_overflow(s, [s EXCEPT !.sum_of_squares =
                                          wrapping_sub(s.sum_of_squares, y)])
                 ELSE [s EXCEPT !.sum_of_squares = wrapping_sub(s.sum_of_squares, y)],
          self, x)

sq_add(self, x) ==
    Eval2(LAMBDA s, y :
            IF s.panicked THEN s
            ELSE IF add_overflows(s.sum_of_squares, y)
                 THEN on_overflow(s, [s EXCEPT !.sum_of_squares =
                                          wrapping_add(s.sum_of_squares, y)])
                 ELSE [s EXCEPT !.sum_of_squares = wrapping_add(s.sum_of_squares, y)],
          self, x)

\* Eviction at the wrong end: pop_back for pop_front.
evict_newest(self) ==
    IF Len(self.values) = self.window_size /\ self.values # <<>>
    THEN LET removed == self.values[Len(self.values)]
             popped == [self EXCEPT !.values =
                          SubSeq(self.values, 1, Len(self.values) - 1)]
         IN  sq_sub(sum_sub(popped, FromI32(removed, 8)), pow2(removed))
    ELSE self

\* No eviction at all.
evict_nothing(self) == self

\* Eviction one sample early: the test is len + 1 >= window_size.
evict_early(self) ==
    IF Len(self.values) + 1 >= self.window_size /\ self.values # <<>>
    THEN LET removed == Head(self.values)
             popped == [self EXCEPT !.values = Tail(self.values)]
         IN  sq_sub(sum_sub(popped, FromI32(removed, 8)), pow2(removed))
    ELSE self

\* if self.values.len() == self.window_size { if let Some(removed) = pop_front() .. }
evict_oldest(self) ==
    IF Len(self.values) = self.window_size /\ self.values # <<>>
    THEN LET removed == Head(self.values)
             popped == [self EXCEPT !.values = Tail(self.values)]
         IN  sq_sub(sum_sub(popped, FromI32(removed, 8)), pow2(removed))
    ELSE self

\* let _ = self.values.push_back(value); self.sum += ..; self.sum_of_squares += ..
push_newest(self, value) ==
    IF self.panicked THEN self
    ELSE LET pushed == [self EXCEPT !.values = push_back(self.values, value),
                                    !.dropped = @ \/ push_back_is_err(self.values)]
         IN  sq_add(sum_add(pushed, FromI32(value, 8)), pow2(value))

add_sample(self, value) ==
    IF self.panicked THEN self
    ELSE push_newest(evict_oldest([self EXCEPT !.samples = Append(self.samples, value)]),
                     value)

(***************************************************************************)
(* RollingStats::mean, std_dev and sample                                  *)
(***************************************************************************)
\* The sum divided by the size of the window, not by the count of values.
mean_by_window_size(self) ==
    IF Len(self.values) = 0 THEN F32Zero
    ELSE F32Div(I64ToF32(self.sum), UsizeToF32(self.window_size))

mean(self) ==
    LET count == Len(self.values)
    IN  IF count = 0 THEN F32Zero
        ELSE F32Div(I64ToF32(self.sum), UsizeToF32(count))

\* let variance = (self.sum_of_squares as f32 / count as f32) - (mean * mean);
variance_of(self, mu) ==
    F32Sub(F32Div(I64ToF32(self.sum_of_squares), UsizeToF32(Len(self.values))),
           F32Mul(mu, mu))

std_dev(self) ==
    LET count == Len(self.values)
    IN  IF count < 2 THEN F32Zero
        ELSE F32Sqrt(variance_of(self, mean(self)))

\* Normal::new(mean, std_dev) is an Err for a std_dev that is not a number
\* (and for a negative one, which sqrt never returns); unwrap() then panics.
normal_new_fails(sd) == sd.k = "nan" \/ (sd.k = "num" /\ sd.s = 1)

\* sample(): the value returned without a draw, a draw from the normal
\* distribution of the given mean and std_dev, or the panic of unwrap().
sample(self) ==
    Eval2(LAMBDA mu, sd :
            IF sd = F32Zero THEN [op |-> "sample", drawn |-> FALSE, val |-> mu]
            ELSE IF normal_new_fails(sd) THEN [op |-> "sample", panic |-> TRUE]
            ELSE [op |-> "sample", drawn |-> TRUE, mean |-> mu, std_dev |-> sd],
          mean(self), std_dev(self))

(***************************************************************************)
(* RollingStats::read_i32_from_bytes                                       *)
(***************************************************************************)
\* A byte as the signed top byte of an i32.
AsI8(b) == IF b >= 128 THEN b - 256 ELSE b
\* byteorder's BigEndian::read_i32 and LittleEndian::read_i32 of 4 bytes.
BigEndian_read_i32(b) == ((AsI8(b[1]) * 256 + b[2]) * 256 + b[3]) * 256 + b[4]
LittleEndian_read_i32(b) == ((AsI8(b[4]) * 256 + b[3]) * 256 + b[2]) * 256 + b[1]

\* &bytes[0..4] panics on a slice shorter than 4 bytes.
slice_panics(b) == Len(b) < FRAME

\* The two arms of the match exchanged.
read_i32_swapped(e, b) ==
    IF e = "Little" THEN BigEndian_read_i32(SubSeq(b, 1, FRAME))
    ELSE LittleEndian_read_i32(SubSeq(b, 1, FRAME))

read_i32_from_bytes(e, b) ==
    IF e = "Little" THEN LittleEndian_read_i32(SubSeq(b, 1, FRAME))
    ELSE BigEndian_read_i32(SubSeq(b, 1, FRAME))

\* let value = self.read_i32_from_bytes(bytes); self.add_sample(value);
decode_and_add(self, b) ==
    IF self.panicked THEN self
    ELSE LET seen == [self EXCEPT !.odd_slice = @ \/ Len(b) # FRAME]
         IN  IF slice_panics(b) THEN [seen EXCEPT !.panicked = TRUE]
             ELSE add_sample(seen, read_i32_from_bytes(self.endianness, b))

(***************************************************************************)
(* RollingStats::write                                                     *)
(***************************************************************************)
RECURSIVE for_chunks_dropping_tail(_, _, _)
\* The loop without its else branch: a short last chunk is not kept.
for_chunks_dropping_tail(self, rest, bytes_consumed) ==
    IF self.panicked \/ rest = <<>> THEN [self |-> self, ret |-> bytes_consumed]
    ELSE LET chunk == SubSeq(rest, 1, Min(FRAME, Len(rest)))
             after == SubSeq(rest, Len(chunk) + 1, Len(rest))
         IN  IF Len(chunk) = FRAME
             THEN for_chunks_dropping_tail(decode_and_add(self, chunk), after,
                                           bytes_consumed + FRAME)
             ELSE for_chunks_dropping_tail(self, after, bytes_consumed + Len(chunk))

RECURSIVE for_chunks(_, _, _)
\* for chunk in buf[start..].chunks(4) { .. }: rest is what is left of
\* buf[start..], bytes_consumed the count so far.
for_chunks(self, rest, bytes_consumed) ==
    IF self.panicked \/ rest = <<>> THEN [self |-> self, ret |-> bytes_consumed]
    ELSE LET chunk == SubSeq(rest, 1, Min(FRAME, Len(rest)))
             after == SubSeq(rest, Len(chunk) + 1, Len(rest))
         IN  IF Len(chunk) = FRAME
             THEN for_chunks(decode_and_add(self, chunk), after, bytes_consumed + FRAME)
             ELSE for_chunks(extend_remainder(self, chunk), after,
                             bytes_consumed + Len(chunk))

\* A clear that clears nothing.
clear_nothing(v) == v

\* Vec::clear
clear(v) == <<>>

\* The first branch taking one byte too few from buf.
complete_remainder_one_short(self, buf, start) ==
    LET filled == [self EXCEPT !.remainder =
                     extend_from_slice(self.remainder, SubSeq(buf, 1, start - 1))]
        added == decode_and_add(filled, filled.remainder)
    IN  IF added.panicked THEN added
        ELSE [added EXCEPT !.remainder = clear(added.remainder)]

\* The first branch with the new bytes put before the carried ones.
complete_remainder_reversed(self, buf, start) ==
    LET filled == [self EXCEPT !.remainder = SubSeq(buf, 1, start) \o self.remainder]
        added == decode_and_add(filled, filled.remainder)
    IN  IF added.panicked THEN added
        ELSE [added EXCEPT !.remainder = clear(added.remainder)]

\* The first branch with the completed frame cleared but never added.
complete_remainder_without_add(self, buf, start) ==
    [self EXCEPT !.remainder = <<>>]

\* The first branch of write: the bytes of buf that complete the remainder
\* are appended to it, the frame is decoded and added, the remainder cleared.
complete_remainder(self, buf, start) ==
    LET filled == extend_remainder(self, SubSeq(buf, 1, start))
        added == decode_and_add(filled, filled.remainder)
    IN  IF added.panicked THEN added
        ELSE [added EXCEPT !.remainder = clear(added.remainder)]

\* The early return giving back bytes_consumed, which is still 0.
early_return_zero(self, buf) ==
    [self |-> [self EXCEPT !.remainder = extend_from_slice(self.remainder, buf)],
     ret |-> 0, path |-> "early"]

\* The early return storing buf in place of the remainder, not after it.
early_return_overwriting(self, buf) ==
    [self |-> [self EXCEPT !.remainder = buf], ret |-> Len(buf), path |-> "early"]

\* let _ = self.remainder.extend_from_slice(buf); return buf.len();
early_return(self, buf) ==
    [self |-> extend_remainder(self, buf), ret |-> Len(buf), path |-> "early"]

\* write(buf): the instance afterwards (self), the value returned (ret), and
\* the branch taken (path): "early" for the return inside the first branch,
\* "completed" when the remainder was completed, "loop" when it was empty.
write(self, buf) ==
    IF self.remainder # <<>>
    THEN LET start == FRAME - Len(self.remainder)
         IN  IF Len(buf) >= start
             THEN [path |-> "completed"] @@
                  for_chunks(complete_remainder(self, buf, start),
                             SubSeq(buf, start + 1, Len(buf)), start)
             ELSE early_return(self, buf)
    ELSE [path |-> "loop"] @@ for_chunks(self, buf, 0)

(***************************************************************************)
(* The state machine.                                                      *)
(***************************************************************************)
\* The input given to the instance so far, as MaxInput counts it.
InputUsed == Len(stream) + 2 * direct

Init ==
    /\ window_size = 0
    /\ endianness = "Big"
    /\ values = <<>>
    /\ remainder = <<>>
    /\ sum = I64Zero
    /\ sum_of_squares = I64Zero
    /\ created = FALSE
    /\ panicked = FALSE
    /\ wrapped = FALSE
    /\ stream = <<>>
    /\ samples = <<>>
    /\ direct = 0
    /\ consumed = 0
    /\ path = "none"
    /\ asked = -1
    /\ odd_slice = FALSE
    /\ dropped = FALSE
    /\ bytes = <<>>
    /\ decoded = <<>>
    /\ encoded = <<>>

\* The fields of the instance and the log become those of s.
Becomes(s) ==
    /\ window_size' = s.window_size
    /\ endianness' = s.endianness
    /\ values' = s.values
    /\ remainder' = s.remainder
    /\ sum' = s.sum
    /\ sum_of_squares' = s.sum_of_squares
    /\ panicked' = s.panicked
    /\ wrapped' = s.wrapped
    /\ samples' = s.samples
    /\ odd_slice' = s.odd_slice
    /\ dropped' = s.dropped

\* What a call can do, given what it does in a build without overflow checks
\* (r, with the instance in r.self) and in one with them (Checked): the build
\* is one or the other, and which one shows at the first overflow.  Once an
\* overflow has wrapped, the build is known not to check.
Builds(r, Checked) ==
    IF r.self.wrapped /\ ~wrapped THEN {r, Checked} ELSE {r}

\* RollingStats::new(ws, e): the instance, or the assertion's panic.
New(ws, e) ==
    /\ ~created /\ ~panicked
    /\ IF new_asserts(ws)
       THEN /\ Becomes(new(ws, e, FALSE))
            /\ created' = TRUE
       ELSE /\ panicked' = TRUE
            /\ UNCHANGED <<window_size, endianness, values, remainder, sum,
                           sum_of_squares, wrapped, samples, odd_slice, dropped,
                           created>>
    /\ asked' = ws
    /\ UNCHANGED <<stream, direct, consumed, path, codec>>

\* RollingStats::default()
Default ==
    /\ ~created /\ ~panicked
    /\ Becomes(new(DEFAULT_WINDOW, "Big", FALSE))
    /\ created' = TRUE
    /\ asked' = DEFAULT_WINDOW
    /\ UNCHANGED <<stream, direct, consumed, path, codec>>

\* A direct call of add_sample(value), as the module's tests make.
AddSample(value) ==
    /\ created /\ ~panicked
    /\ direct < MaxDirect /\ InputUsed + 2 <= MaxInput
    /\ \E r \in {[self |-> add_sample(SelfIn(FALSE), value)]} :
         \E q \in Builds(r, [self |-> add_sample(SelfIn(TRUE), value)]) :
           Becomes(q.self)
    /\ direct' = direct + 1
    /\ UNCHANGED <<created, stream, consumed, path, asked, codec>>

\* write(buf); its return value is added to consumed when it returns.
Write(buf) ==
    /\ created /\ ~panicked
    /\ InputUsed + Len(buf) <= MaxInput
    /\ \E r \in {write(SelfIn(FALSE), buf)} :
         \E q \in Builds(r, write(SelfIn(TRUE), buf)) :
           /\ Becomes(q.self)
           /\ consumed' = IF q.self.panicked THEN consumed ELSE consumed + q.ret
           /\ path' = q.path
    /\ stream' = stream \o buf
    /\ UNCHANGED <<created, direct, asked, codec>>

\* mean() and std_dev() take &self and return a value: they change nothing.
\* What they return in a state is mean(SelfIn(FALSE)), std_dev(SelfIn(FALSE)).
Mean ==
    /\ created /\ ~panicked
    /\ UNCHANGED vars

StdDev ==
    /\ created /\ ~panicked
    /\ UNCHANGED vars

\* sample() changes nothing either, unless its unwrap() panics.
Sample ==
    /\ created /\ ~panicked
    /\ panicked' = ("panic" \in DOMAIN sample(SelfIn(FALSE)))
    /\ UNCHANGED <<window_size, endianness, values, remainder, sum, sum_of_squares,
                   created, wrapped, stream, samples, direct, consumed, path,
                   asked, odd_slice, dropped, codec>>

Next ==
    \/ \E ws \in NewSizes, e \in Endianness : New(ws, e)
    \/ Default
    \/ \E value \in SampleVals : AddSample(value)
    \/ \E buf \in SeqsUpTo(ByteVals, MaxInput - InputUsed) : Write(buf)
    \/ Mean
    \/ StdDev
    \/ Sample

Spec == Init /\ [][Next]_vars

(***************************************************************************)
(* read_i32_from_bytes on its own: a pure function of the endianness of    *)
(* the instance and of the slice.  The instance is a default one of either *)
(* endianness; the slice is any four bytes of CodecBytes, or the encoding  *)
(* of a value of CodecVals.                                                *)
(***************************************************************************)
CodecBytes == {0, 1, 128, 255}
CodecVals == {-2147483647 - 1, -2, 0, 16909060, 2147483647}

\* Byte j of the two's complement of v, byte 0 the least significant.
TwosByte(v, j) == (v \div (256 ^ j)) % 256
\* i32::to_be_bytes and i32::to_le_bytes.
to_be_bytes(v) == <<TwosByte(v, 3), TwosByte(v, 2), TwosByte(v, 1), TwosByte(v, 0)>>
to_le_bytes(v) == <<TwosByte(v, 0), TwosByte(v, 1), TwosByte(v, 2), TwosByte(v, 3)>>
to_bytes(e, v) == IF e = "Little" THEN to_le_bytes(v) ELSE to_be_bytes(v)

InitRead ==
    /\ window_size = DEFAULT_WINDOW
    /\ endianness \in Endianness
    /\ values = <<>>
    /\ remainder = <<>>
    /\ sum = I64Zero
    /\ sum_of_squares = I64Zero
    /\ created = TRUE
    /\ panicked = FALSE
    /\ wrapped = FALSE
    /\ stream = <<>>
    /\ samples = <<>>
    /\ direct = 0
    /\ consumed = 0
    /\ path = "none"
    /\ asked = DEFAULT_WINDOW
    /\ odd_slice = FALSE
    /\ dropped = FALSE
    /\ bytes \in [1..FRAME -> CodecBytes]
    /\ decoded = <<>>
    /\ encoded = <<>>

\* self.read_i32_from_bytes(bytes)
ReadBytes ==
    /\ decoded = <<>>
    /\ decoded' = <<read_i32_from_bytes(endianness, bytes)>>
    /\ UNCHANGED <<window_size, endianness, values, remainder, sum, sum_of_squares,
                   created, panicked, wrapped, stream, samples, direct, consumed,
                   path, asked, odd_slice, dropped, bytes, encoded>>

\* self.read_i32_from_bytes(&v.to_be_bytes()), or to_le_bytes for Little
ReadEncoded(v) ==
    /\ decoded = <<>>
    /\ encoded' = <<v>>
    /\ bytes' = to_bytes(endianness, v)
    /\ decoded' = <<read_i32_from_bytes(endianness, bytes')>>
    /\ UNCHANGED <<window_size, endianness, values, remainder, sum, sum_of_squares,
                   created, panicked, wrapped, stream, samples, direct, consumed,
                   path, asked, odd_slice, dropped>>

NextRead ==
    \/ ReadBytes
    \/ \E v \in CodecVals : ReadEncoded(v)

SpecRead == InitRead /\ [][NextRead]_vars

(***************************************************************************)
(* The largest window, filled past its size: an instance of window_size    *)
(* 10, the capacity of the deque, takes up to MaxFill samples from direct  *)
(* add_sample calls, with up to MaxTrickle bytes written in between.       *)
(***************************************************************************)
MaxFill == 11
MaxTrickle == 5
\* The value the direct add_sample calls pass.
FillVals == {-1}

\* The state after RollingStats::new(10, e).
InitFill ==
    /\ window_size = DEQUE_CAP
    /\ endianness \in Endianness
    /\ values = <<>>
    /\ remainder = <<>>
    /\ sum = I64Zero
    /\ sum_of_squares = I64Zero
    /\ created = TRUE
    /\ panicked = FALSE
    /\ wrapped = FALSE
    /\ stream = <<>>
    /\ samples = <<>>
    /\ direct = 0
    /\ consumed = 0
    /\ path = "none"
    /\ asked = DEQUE_CAP
    /\ odd_slice = FALSE
    /\ dropped = FALSE
    /\ bytes = <<>>
    /\ decoded = <<>>
    /\ encoded = <<>>

\* add_sample(value)
Fill(value) ==
    /\ ~panicked
    /\ direct < MaxFill
    /\ Becomes(add_sample(SelfIn(FALSE), value))
    /\ direct' = direct + 1
    /\ UNCHANGED <<created, stream, consumed, path, asked, codec>>

\* write(buf)
Trickle(buf) ==
    /\ ~panicked
    /\ Len(stream) + Len(buf) <= MaxTrickle
    /\ \E q \in {write(SelfIn(FALSE), buf)} :
         /\ Becomes(q.self)
         /\ consumed' = IF q.self.panicked THEN consumed ELSE consumed + q.ret
         /\ path' = q.path
    /\ stream' = stream \o buf
    /\ UNCHANGED <<created, direct, asked, codec>>

NextFill ==
    \/ \E value \in FillVals : Fill(value)
    \/ \E buf \in SeqsUpTo(ByteVals, MaxTrickle - Len(stream)) : Trickle(buf)

SpecFill == InitFill /\ [][NextFill]_vars

(***************************************************************************)
(* Properties.                                                             *)
(***************************************************************************)
\* Exact sums are computed two bytes wider than i64: ten squares of i32
\* values stay below 2^66.
ExactWidth == 8 + 2

RECURSIVE ExactSum(_)
ExactSum(vs) ==
    IF vs = <<>> THEN [i \in 1..ExactWidth |-> 0]
    ELSE wrapping_add(FromI32(Head(vs), ExactWidth), ExactSum(Tail(vs)))

RECURSIVE ExactSumSq(_)
ExactSumSq(vs) ==
    IF vs = <<>> THEN [i \in 1..ExactWidth |-> 0]
    ELSE wrapping_add(wrapping_mul(FromI32(Head(vs), ExactWidth),
                                   FromI32(Head(vs), ExactWidth)),
                      ExactSumSq(Tail(vs)))

\* The last n elements of s.
LastN(s, n) == SubSeq(s, Len(s) - n + 1, Len(s))

\* C1: after every add_sample and every write that returns, sum is the exact
\* sum of the values in the window and sum_of_squares the exact sum of their
\* squares.
C1_SumsExact ==
    created /\ ~panicked =>
        /\ SignExtend(sum, ExactWidth) = ExactSum(values)
        /\ SignExtend(sum_of_squares, ExactWidth) = ExactSumSq(values)

\* C2: after k samples have been passed to add_sample of an instance of
\* window size c, the window holds the last min(k, c) of them, oldest first.
C2_WindowIsLastSamples ==
    created /\ ~panicked =>
        values = LastN(samples, Min(Len(samples), window_size))

\* A window of three that has evicted a value different from the newest.
C2_Evicted ==
    /\ created /\ ~panicked
    /\ window_size = DEFAULT_WINDOW
    /\ Len(samples) > window_size
    /\ samples[1] # samples[Len(samples)]

\* C3: in every reachable state the window holds at least 0 and at most
\* window_size values.
C3_LenWithinWindow ==
    created => Len(values) >= 0 /\ Len(values) <= window_size

\* A full window that has taken more samples than it holds.
C3_FullAfterEviction ==
    /\ created
    /\ Len(values) = window_size
    /\ Len(samples) > window_size

\* C4: every write that returns has returned the length of its buffer, on
\* every path, and every byte written is in a decoded frame or in the
\* remainder: none is dropped.
C4_WriteReturnsLen ==
    created /\ ~panicked =>
        /\ consumed = Len(stream)
        /\ Len(stream) = FRAME * (Len(samples) - direct) + Len(remainder)

\* The last write took the early return, after a write that decoded a frame.
C4_EarlyReturn ==
    /\ created /\ ~panicked
    /\ path = "early"
    /\ Len(samples) > direct

\* C5: writing a byte sequence in consecutive chunks, however it is split,
\* leaves the window, the sums and the remainder that one write of the whole
\* sequence to a fresh instance leaves, and the returned counts add up to the
\* length of the sequence.
C5_ChunkedEqualsWhole ==
    created /\ ~panicked /\ direct = 0 =>
        Eval1(LAMBDA w : /\ ~w.self.panicked
                         /\ values = w.self.values
                         /\ remainder = w.self.remainder
                         /\ sum = w.self.sum
                         /\ sum_of_squares = w.self.sum_of_squares
                         /\ consumed = w.ret
                         /\ consumed = Len(stream),
              write(new(window_size, endianness, FALSE), stream))

\* Two different frames decoded by writes alone, the last write having
\* completed a frame that an earlier write began.
C5_FrameAcrossWrites ==
    /\ created /\ ~panicked /\ direct = 0
    /\ path = "completed"
    /\ Len(samples) >= 2
    /\ samples[1] # samples[2]

\* C6: after every write that returns, the remainder holds at most 3 bytes,
\* and they are the last bytes written: a remainder that reached 4 bytes was
\* decoded and cleared before anything else was appended.
C6_RemainderBelowFrame ==
    created /\ ~panicked =>
        /\ Len(remainder) <= FRAME - 1
        /\ remainder = LastN(stream, Len(remainder))

\* The last write completed a frame and left three bytes behind.
C6_CompletedAndCarried ==
    /\ created /\ ~panicked
    /\ path = "completed"
    /\ Len(remainder) = FRAME - 1

\* C7: a write of n bytes that starts with r bytes in the remainder and
\* returns leaves (r + n) mod 4 bytes in it, calls add_sample (r + n) div 4
\* times, and reports n bytes consumed.  The steps that leave direct as it is
\* are the writes and the queries.
C7_WriteArithmetic ==
    [][created /\ ~panicked' /\ direct' = direct =>
         LET r == Len(remainder)
             n == Len(stream') - Len(stream)
         IN  /\ Len(remainder') = (r + n) % FRAME
             /\ Len(samples') - Len(samples) = (r + n) \div FRAME
             /\ consumed' - consumed = n]_vars

\* The last write completed a frame with its first bytes and left one of
\* its own behind.
C7_CompletedWithTail ==
    /\ created /\ ~panicked
    /\ path = "completed"
    /\ Len(remainder) = 1
    /\ Len(samples) - direct = 1

\* C8: read_i32_from_bytes returns the two's-complement i32 whose bytes are
\* those of the slice, the first the most significant for Big and the least
\* significant for Little; encoding the result gives the slice back, and
\* decoding the encoding of an i32 gives that i32 back.
C8_ReadI32 ==
    decoded # <<>> =>
        LET v == decoded[1]
        IN  /\ v >= -2147483647 - 1 /\ v <= 2147483647
            /\ endianness = "Big" =>
                 bytes = <<TwosByte(v, 3), TwosByte(v, 2), TwosByte(v, 1), TwosByte(v, 0)>>
            /\ endianness = "Little" =>
                 bytes = <<TwosByte(v, 0), TwosByte(v, 1), TwosByte(v, 2), TwosByte(v, 3)>>
            /\ to_bytes(endianness, v) = bytes
            /\ encoded # <<>> => v = encoded[1]

\* A negative value decoded from its own encoding, whose bytes differ
\* between the two orders.
C8_RoundTrip ==
    /\ decoded # <<>> /\ encoded # <<>>
    /\ decoded[1] < 0
    /\ to_be_bytes(decoded[1]) # to_le_bytes(decoded[1])

\* C9: new fails for a window_size of 0 or above 10; for 1..10 it returns an
\* instance of that window size whose window and remainder are empty and
\* whose sums are 0.
C9_NewAsserts ==
    asked # -1 =>
        /\ asked = 0 \/ asked > 10 => ~created /\ panicked
        /\ asked >= 1 /\ asked <= 10 => created /\ window_size = asked
        /\ created /\ stream = <<>> /\ direct = 0 =>
             /\ values = <<>>
             /\ remainder = <<>>
             /\ sum = I64Zero
             /\ sum_of_squares = I64Zero

\* new has refused the first size above the limit.
C9_Refused ==
    /\ asked = DEQUE_CAP + 1
    /\ panicked /\ ~created

\* -|v| for an i32 v: it fits where |i32::MIN| does not.
NegAbs(v) == IF v > 0 THEN -v ELSE v

\* The f32 f is exactly the integer v.
F32Exact(f, v) ==
    IF v = 0 THEN f = F32Zero
    ELSE /\ f.k = "num"
         /\ f.s = (IF v < 0 THEN 1 ELSE 0)
         /\ f.e <= 8 /\ f.e >= -23
         /\ IF f.e >= 0
            THEN NegAbs(v) % (2 ^ f.e) = 0 /\ NegAbs(v) \div (2 ^ f.e) = -f.m
            ELSE f.m % (2 ^ (-f.e)) = 0 /\ f.m \div (2 ^ (-f.e)) = -NegAbs(v)

\* The f32 f is the one nearest to the integer v, the one with the even
\* significand when two are equally near.
F32Nearest(f, v) ==
    IF v = 0 \/ f.k # "num" \/ f.e <= 0 THEN F32Exact(f, v)
    ELSE /\ f.s = (IF v < 0 THEN 1 ELSE 0)
         /\ f.e <= 8
         /\ LET ulp == 2 ^ f.e
                q == NegAbs(v) \div ulp
                r == NegAbs(v) % ulp
            IN  \/ r = 0 /\ q = -f.m
                \/ /\ q = -f.m
                   /\ IF f.m = 2 ^ 23 THEN 4 * r <= ulp
                      ELSE 2 * r < ulp \/ (2 * r = ulp /\ f.m % 2 = 0)
                \/ /\ q + 1 = -f.m
                   /\ 2 * r > ulp \/ (2 * r = ulp /\ f.m % 2 = 0)

\* sample() returned val, and made no draw.
ReturnsUndrawn(s, val) == s = [op |-> "sample", drawn |-> FALSE, val |-> val]

\* C10 as stated: with an empty window mean(), std_dev() and sample() return
\* 0.0; with one value v in the window mean() returns v, std_dev() returns
\* 0.0 and sample() returns exactly v without a draw.
C10_SingleValueExact ==
    created /\ ~panicked =>
        /\ values = <<>> =>
             /\ mean(SelfIn(FALSE)) = F32Zero
             /\ std_dev(SelfIn(FALSE)) = F32Zero
             /\ ReturnsUndrawn(sample(SelfIn(FALSE)), F32Zero)
        /\ Len(values) = 1 =>
             /\ F32Exact(mean(SelfIn(FALSE)), values[1])
             /\ std_dev(SelfIn(FALSE)) = F32Zero
             /\ ReturnsUndrawn(sample(SelfIn(FALSE)), mean(SelfIn(FALSE)))

\* C10, amended: with an empty window mean(), std_dev() and sample() return
\* 0.0; with one value v in the window mean() returns the f32 nearest to v,
\* which is v itself when |v| <= 2^24, std_dev() returns 0.0 and sample()
\* returns what mean() returns, without a draw.
C10_SingleValueNearest ==
    created /\ ~panicked =>
        /\ values = <<>> =>
             /\ mean(SelfIn(FALSE)) = F32Zero
             /\ std_dev(SelfIn(FALSE)) = F32Zero
             /\ ReturnsUndrawn(sample(SelfIn(FALSE)), F32Zero)
        /\ Len(values) = 1 =>
             /\ F32Nearest(mean(SelfIn(FALSE)), values[1])
             /\ NegAbs(values[1]) >= -16777216 =>
                  F32Exact(mean(SelfIn(FALSE)), values[1])
             /\ std_dev(SelfIn(FALSE)) = F32Zero
             /\ ReturnsUndrawn(sample(SelfIn(FALSE)), mean(SelfIn(FALSE)))

\* One value in the window that no f32 equals.
C10_OneInexactValue ==
    /\ created /\ ~panicked
    /\ Len(values) = 1
    /\ ~F32Exact(mean(SelfIn(FALSE)), values[1])

\* |x| for a signed 8-byte x.
Abs8(x) == IF IsNeg(x) THEN wrapping_neg(x) ELSE x
\* a <= b, for signed 8-byte a and b whose difference fits 8 bytes.
Le8(a, b) == ~IsNeg(wrapping_sub(b, a))
\* The exact sum of the window as a signed 8-byte number: |it| < 2^35.
WindowSum == SubSeq(ExactSum(values), 1, 8)

\* How far the f32 f is from the exact mean S / n of the window, with both
\* scaled to integers: dist = |n * f - S| * 2^dn and ulp = n * 2^(e + dn),
\* where 2^e is the unit in the last place of f and dn = max(-e, 0).
MeanGap(f, n, S) ==
    LET up == IF f.e > 0 THEN f.e ELSE 0
        dn == IF f.e < 0 THEN -f.e ELSE 0
    IN  Eval2(LAMBDA A, B : [dist |-> Abs8(wrapping_sub(A, B)),
                             ulp |-> FromI32(n * (2 ^ up), 8),
                             size |-> Abs8(B)],
              wrapping_mul(FromI32(n, 8), Scaled(f.s, f.m, up)),
              wrapping_mul(S, FromI32(2 ^ dn, 8)))

\* f is the f32 nearest to S / n: at most half a unit in the last place
\* away, and of even significand when exactly half a unit away.
NearestToMean(f, n, S) ==
    IF f.k # "num" THEN f = F32Zero /\ S = I64Zero
    ELSE /\ f.e >= -30 /\ f.e <= 8
         /\ Eval1(LAMBDA g : LET twice == wrapping_add(g.dist, g.dist)
                             IN  /\ Le8(twice, g.ulp)
                                 /\ twice = g.ulp => f.m % 2 = 0,
                  MeanGap(f, n, S))

\* f is within 2^-22 of S / n, relative to S / n: what two roundings to f32
\* allow.
CloseToMean(f, n, S) ==
    IF f.k # "num" THEN f = F32Zero /\ S = I64Zero
    ELSE /\ f.e >= -30 /\ f.e <= 8
         /\ Eval1(LAMBDA g : /\ Le8(g.dist, FromI32(2 ^ 30, 8))
                             /\ Le8(wrapping_mul(g.dist, FromI32(2 ^ 22, 8)), g.size),
                  MeanGap(f, n, S))

\* C11 as stated: for every non-empty window mean() is the arithmetic mean
\* of the values in the window, that is the f32 nearest to their exact sum
\* divided by their number.
C11_MeanIsNearest ==
    created /\ ~panicked /\ values # <<>> =>
        Eval2(LAMBDA f, S : NearestToMean(f, Len(values), S),
              mean(SelfIn(FALSE)), WindowSum)

\* C11, amended: for every non-empty window, sum is the exact sum of the
\* values in the window and mean(), which is sum rounded to f32, divided by
\* their number and rounded again, is within 2^-22 of their arithmetic mean,
\* relative to it; the samples evicted from the window do not enter it.
C11_MeanIsRoundedQuotient ==
    created /\ ~panicked /\ values # <<>> =>
        Eval2(LAMBDA f, S : sum = S /\ CloseToMean(f, Len(values), S),
              mean(SelfIn(FALSE)), WindowSum)

\* A window of three that has evicted a value, and whose mean() is not the
\* f32 nearest to the arithmetic mean.
C11_RoundedTwice ==
    /\ created /\ ~panicked
    /\ window_size = DEFAULT_WINDOW
    /\ Len(samples) > window_size
    /\ samples[1] # samples[2]
    /\ Eval2(LAMBDA f, S : ~NearestToMean(f, Len(values), S),
             mean(SelfIn(FALSE)), WindowSum)

\* The f32 f is a negative number.
F32Negative(f) == f.k = "num" /\ f.s = 1

\* C12: for every window of at least 2 values the variance std_dev takes the
\* square root of is not negative, std_dev() is neither negative nor NaN,
\* and sample() does not fail building the normal distribution.
C12_VarianceNotNegative ==
    created /\ ~panicked /\ Len(values) >= 2 =>
        /\ ~F32Negative(variance_of(SelfIn(FALSE), mean(SelfIn(FALSE))))
        /\ std_dev(SelfIn(FALSE)) # F32NaN
        /\ ~F32Negative(std_dev(SelfIn(FALSE)))
        /\ "panic" \notin DOMAIN sample(SelfIn(FALSE))

\* C13: whenever all values in the window are equal, std_dev() is exactly
\* 0.0 and sample() returns mean() without a draw.
C13_EqualValuesNoDeviation ==
    created /\ ~panicked /\ values # <<>>
            /\ (\A i \in 1..Len(values) : values[i] = values[1]) =>
        /\ std_dev(SelfIn(FALSE)) = F32Zero
        /\ ReturnsUndrawn(sample(SelfIn(FALSE)), mean(SelfIn(FALSE)))

\* C14: the additions and subtractions of add_sample stay inside the i64
\* range for every sequence of samples.  None wraps, and none panics: a
\* panic on overflow happens between the updates of add_sample and leaves
\* the sums behind the window.  So in every state the stored sums are the
\* mathematical sum and sum of squares of the window.
C14_NoOverflow ==
    created =>
        /\ ~wrapped
        /\ SignExtend(sum, ExactWidth) = ExactSum(values)
        /\ SignExtend(sum_of_squares, ExactWidth) = ExactSumSq(values)

\* C15: a write that finds r > 0 bytes in the remainder and is given fewer
\* than 4 - r bytes appends them all to the remainder, decodes no frame and
\* leaves the window and the sums as they are; a write of an empty slice
\* changes nothing and returns 0.  The steps that leave direct as it is are
\* the writes and the queries.
C15_ShortWriteOnlyCarries ==
    [][created /\ ~panicked' /\ direct' = direct =>
         LET r == Len(remainder)
             n == Len(stream') - Len(stream)
             buf == LastN(stream', n)
         IN  /\ r > 0 /\ n < FRAME - r =>
                  /\ remainder' = remainder \o buf
                  /\ samples' = samples
                  /\ values' = values
                  /\ sum' = sum /\ sum_of_squares' = sum_of_squares
             /\ n = 0 =>
                  /\ remainder' = remainder
                  /\ samples' = samples
                  /\ values' = values
                  /\ sum' = sum /\ sum_of_squares' = sum_of_squares
                  /\ consumed' = consumed]_vars

\* The last write only carried bytes, next to a window that holds values,
\* and the remainder is one byte short of a frame.
C15_CarriedOnly ==
    /\ created /\ ~panicked
    /\ path = "early"
    /\ Len(remainder) = FRAME - 1
    /\ values # <<>>

\* C16: after any sequence of writes to a fresh instance, T bytes in all,
\* the k-th sample passed to add_sample is the decoding of the k-th four
\* bytes of the concatenated stream, in stream order, a frame completed
\* from the remainder included, and the remainder holds the last T mod 4
\* bytes of the stream in arrival order.
C16_FramesInStreamOrder ==
    created /\ ~panicked /\ direct = 0 =>
        /\ Len(samples) = Len(stream) \div FRAME
        /\ \A k \in 1..Len(samples) :
             to_bytes(endianness, samples[k]) =
                 SubSeq(stream, FRAME * (k - 1) + 1, FRAME * k)
        /\ remainder = LastN(stream, Len(stream) % FRAME)

\* A frame of unlike bytes put together from two writes, with two bytes of
\* the second write carried on.
C16_FrameFromTwoWrites ==
    /\ created /\ ~panicked /\ direct = 0
    /\ path = "completed"
    /\ Len(samples) = 1
    /\ to_be_bytes(samples[1]) # to_le_bytes(samples[1])
    /\ Len(remainder) = 2

\* C17: every slice write passes to read_i32_from_bytes has exactly 4
\* bytes, the completed remainder and every full chunk: the slicing neither
\* panics on a shorter one nor truncates a longer one.
C17_ReadsWholeFrames == ~odd_slice

\* Writes have decoded a completed remainder and a full chunk as well.
C17_BothKindsRead ==
    /\ created /\ ~panicked
    /\ path = "completed"
    /\ Len(samples) - direct = 2
    /\ remainder = <<>>
    /\ ~odd_slice

\* C18: the results discarded with `let _ =` are never errors: push_back is
\* never called on a full deque and no extend_from_slice would take the
\* remainder past 4 bytes; so every sample counted in sum is in the window
\* (at most window_size samples ago) and every byte carried is kept.
C18_NothingDropped ==
    /\ ~dropped
    /\ created /\ ~panicked =>
         /\ Len(values) = Min(Len(samples), window_size)
         /\ Len(stream) = FRAME * (Len(samples) - direct) + Len(remainder)

\* A deque at its capacity that has evicted and pushed again, with bytes
\* carried beside it.
C18_FullDequePushed ==
    /\ ~panicked
    /\ Len(values) = DEQUE_CAP
    /\ Len(samples) > DEQUE_CAP
    /\ remainder # <<>>
    /\ Len(samples) > direct

\* C19: from the end of one call to the end of the next the window never
\* gets shorter: it grows by one for each sample inserted until it holds
\* window_size values, and once it holds window_size values it holds
\* window_size values ever after.
C19_WindowNeverShrinks ==
    [][created /\ ~panicked' =>
         /\ Len(values') >= Len(values)
         /\ Len(values') = Min(Len(values) + (Len(samples') - Len(samples)),
                               window_size)
         /\ Len(values) = window_size => Len(values') = window_size]_vars

\* A window of one that has stayed full over direct calls and a write.
C19_StayedFull ==
    /\ created /\ ~panicked
    /\ window_size = 1
    /\ Len(values) = window_size
    /\ Len(samples) >= 3
    /\ direct > 0 /\ Len(samples) > direct

=============================================================================
